---- MODULE Spec2Model ----
(***************************************************************************)
(* A model of backend/app/utils/file_parser.py:                            *)
(*   - split_text_into_chunks      (specification Spec)                    *)
(*   - _read_text_with_fallback    (specification SpecDecode)              *)
(*   - FileParser.extract_text and FileParser.extract_from_multiple        *)
(*                                 (specification SpecExtract)             *)
(* A text is a sequence of one-character strings.  The characters that     *)
(* the code tests for are named: "sp" is a space, "nl" a line feed,        *)
(* "dot" "bang" "qm" are . ! ? and "fdot" "fbang" "fqm" are the full-width *)
(* terminators; "a" is any other character.                                *)
(***************************************************************************)
EXTENDS Integers, Sequences, FiniteSets, TLC

\* ------------------------------------------------------------------ bounds
MaxLen == 5
MaxSize == 4
MaxIter == 13

\* The characters the input texts are built from.
Chars == {"a", "sp", "fdot", "dot"}

Min(a, b) == IF a < b THEN a ELSE b
Max(a, b) == IF a > b THEN a ELSE b

\* All sequences over S of length at most n.
SeqsUpTo(S, n) == UNION {[1..k -> S] : k \in 0..n}

\* ------------------------------------------------- Python string primitives
\* s[lo:hi]: a negative index counts from the end, and both are clamped.
PySliceIndex(i, n) == IF i < 0 THEN Max(i + n, 0) ELSE Min(i, n)

PySlice(s, lo, hi) ==
  LET l == PySliceIndex(lo, Len(s))
      h == PySliceIndex(hi, Len(s))
  IN IF h <= l THEN <<>> ELSE SubSeq(s, l + 1, h)

\* The index positions (0-based, in s) that s[lo:hi] holds.
PySlicePositions(s, lo, hi) ==
  LET l == PySliceIndex(lo, Len(s))
      h == PySliceIndex(hi, Len(s))
  IN {i \in 0..(Len(s) - 1) : l <= i /\ i < h}

\* w.rfind(sep): the highest 0-based offset at which sep occurs in w, or -1.
RFind(w, sep) ==
  LET hits == {i \in 0..(Len(w) - Len(sep)) : SubSeq(w, i + 1, i + Len(sep)) = sep}
  IN IF hits = {} THEN -1 ELSE CHOOSE i \in hits : \A j \in hits : j <= i

IsSpace(c) == c \in {"sp", "nl"}

\* s.strip(): s without its leading and trailing whitespace; keep holds the
\* indices of the characters that are not whitespace.
Trim(s, keep) ==
  IF keep = {} THEN <<>>
  ELSE LET first == CHOOSE i \in keep : \A j \in keep : i <= j
           last == CHOOSE i \in keep : \A j \in keep : j <= i
       IN SubSeq(s, first, last)

Strip(s) == Trim(s, {i \in 1..Len(s) : ~IsSpace(s[i])})

\* ---------------------------------------------------- split_text_into_chunks
\* The separators, in the order the loop tries them.
Seps ==
  << <<"fdot">>, <<"fbang">>, <<"fqm">>,
     <<"dot", "nl">>, <<"bang", "nl">>, <<"qm", "nl">>,
     <<"nl", "nl">>,
     <<"dot", "sp">>, <<"bang", "sp">>, <<"qm", "sp">> >>

\* last_sep > chunk_size * 0.3.  For every chunk_size up to 40 the float
\* product compares with an integer offset exactly as 3*chunk_size/10 does.
AboveThreshold(last_sep, size) == 10 * last_sep > 3 * size

\* last_sep != -1 and last_sep > chunk_size * 0.3
Accepts(last_sep, size) == last_sep # -1 /\ AboveThreshold(last_sep, size)

\* Faulty variants of SepEnd: a separator taken to be one character long,
\* and an end placed one character too far.
SepEndOneChar(st, last_sep, sep) == st + last_sep + 1
SepEndTooFar(st, last_sep, sep) == st + last_sep + Len(sep) + 1

\* end = start + last_sep + len(sep)
SepEnd(st, last_sep, sep) == st + last_sep + Len(sep)

\* Faulty variant of SepFrom: the search stops at the first separator that
\* occurs in the window at all, accepted or not.
RECURSIVE SepFromFirstOccurring(_, _, _)
SepFromFirstOccurring(w, size, k) ==
  IF k > Len(Seps) THEN 0
  ELSE IF RFind(w, Seps[k]) # -1
       THEN (IF Accepts(RFind(w, Seps[k]), size) THEN k ELSE 0)
  ELSE SepFromFirstOccurring(w, size, k + 1)

\* The for loop over the separators from the k-th on: the index of the first
\* separator whose rightmost occurrence in the window is accepted, or 0.
RECURSIVE SepFrom(_, _, _)
SepFrom(w, size, k) ==
  IF k > Len(Seps) THEN 0
  ELSE IF Accepts(RFind(w, Seps[k]), size) THEN k
  ELSE SepFrom(w, size, k + 1)

\* The separator (index into Seps, 0 for none) chosen for the window at st.
ChosenSep(t, st, size) ==
  IF st + size < Len(t) THEN SepFrom(PySlice(t, st, st + size), size, 1) ELSE 0

\* last_sep of the chosen separator k, -1 when none is chosen.
ChosenOffset(t, st, size, k) ==
  IF k = 0 THEN -1 ELSE RFind(PySlice(t, st, st + size), Seps[k])

\* The value of `end` when the chunk is cut: start + chunk_size, unless a
\* separator k was chosen at offset last_sep.
WindowEnd(st, size, k, last_sep) ==
  IF k = 0 THEN st + size ELSE SepEnd(st, last_sep, Seps[k])

\* Faulty variant of NextStart: the overlap is forgotten.
NextStartNoOverlap(t, e, ov) == IF e < Len(t) THEN e ELSE Len(t)

\* start = end - overlap if end < len(text) else len(text)
NextStart(t, e, ov) == IF e < Len(t) THEN e - ov ELSE Len(t)

\* return [text] if text.strip() else []
ShortResult(t) == IF Strip(t) # <<>> THEN <<t>> ELSE <<>>

VARIABLES
  text,        \* the argument text
  chunk_size,  \* the argument chunk_size
  overlap,     \* the argument overlap
  start,       \* the cursor
  chunks,      \* the list being built, and returned
  windows,     \* history: start, end, chosen separator and emission of every iteration
  pc           \* "call", "loop", "done" (returned), "idle" (not in this call)

chunkVars == <<text, chunk_size, overlap, start, chunks, windows, pc>>

VARIABLES
  data,     \* the bytes read from the file
  detA,     \* what charset_normalizer does in this call
  detB,     \* what chardet does in this call
  decoded,  \* the outcome of the call: a str returned or an exception raised
  dpc       \* "call", "done", "idle"

decodeVars == <<data, detA, detB, decoded, dpc>>

VARIABLES
  file_paths,  \* the argument of extract_from_multiple
  fs,          \* the paths that exist
  all_texts,   \* the sections built so far
  calls,       \* history: the outcome of each extract_text call
  returned,    \* the value returned
  epc          \* "loop", "done", "raised" (an exception escaped), "idle"

extractVars == <<file_paths, fs, all_texts, calls, returned, epc>>

\* The text of the documented example: 100 characters, no separator.
ExampleText == [i \in 1..100 |-> "a"]

\* A text in which a separator is followed by a long run: chunk_size 13 and
\* overlap 6 send the cursor below 0 after the first window.
LongText == [i \in 1..14 |-> IF i = 5 THEN "fdot" ELSE "a"]

\* A window of 5 holding a full-width stop at offset 0 and ". " at offset 2.
PriorityText == <<"fdot", "a", "dot", "sp", "a", "a", "a">>

ChunkInit ==
  /\ \/ /\ text \in SeqsUpTo(Chars, MaxLen)
        /\ chunk_size \in 1..MaxSize
        /\ overlap \in 0..(chunk_size - 1)
     \/ /\ text = ExampleText /\ chunk_size = 10 /\ overlap = 2
     \/ /\ text = LongText /\ chunk_size = 13 /\ overlap = 6
     \/ /\ text = PriorityText /\ chunk_size = 5 /\ overlap \in 0..1
  /\ start = 0
  /\ chunks = <<>>
  /\ windows = <<>>
  /\ pc = "call"

\* if len(text) <= chunk_size: return ...
ShortReturn ==
  /\ pc = "call"
  /\ Len(text) <= chunk_size
  /\ chunks' = ShortResult(text)
  /\ pc' = "done"
  /\ UNCHANGED <<text, chunk_size, overlap, start, windows, decodeVars, extractVars>>

\* chunks = []; start = 0
EnterLoop ==
  /\ pc = "call"
  /\ Len(text) > chunk_size
  /\ chunks' = <<>>
  /\ start' = 0
  /\ pc' = "loop"
  /\ UNCHANGED <<text, chunk_size, overlap, windows, decodeVars, extractVars>>

\* One iteration of the while loop.
LoopIter ==
  /\ pc = "loop"
  /\ start < Len(text)
  /\ Len(windows) < MaxIter
  /\ LET k == ChosenSep(text, start, chunk_size)
         last_sep == ChosenOffset(text, start, chunk_size, k)
         e == WindowEnd(start, chunk_size, k, last_sep)
         chunk == Strip(PySlice(text, start, e))
     IN /\ chunks' = IF chunk # <<>> THEN Append(chunks, chunk) ELSE chunks
        /\ windows' = Append(windows,
                        [start |-> start, end |-> e, sep |-> k, last |-> last_sep,
                         emitted |-> chunk # <<>>])
        /\ start' = NextStart(text, e, overlap)
  /\ UNCHANGED <<text, chunk_size, overlap, pc, decodeVars, extractVars>>

\* The loop condition fails: return chunks.
LoopExit ==
  /\ pc = "loop"
  /\ start >= Len(text)
  /\ pc' = "done"
  /\ UNCHANGED <<text, chunk_size, overlap, start, chunks, windows, decodeVars, extractVars>>


\* ---------------------------------------------------- _read_text_with_fallback
\* A byte buffer is a sequence of byte values, a str a sequence of code points.
MaxBytes == 3

\* The byte values the buffers are built from: "A", the two bytes of U+00E9
\* in UTF-8 (0xC3 0xA9), and 0xFF, which no UTF-8 text holds.
ByteVals == {65, 195, 169, 255}

\* The code point that errors='replace' substitutes: U+FFFD.
Replacement == 65533

IsContinuation(b) == 128 <= b /\ b <= 191
IsLead2(b) == 194 <= b /\ b <= 223

\* data.decode('utf-8', errors) from the i-th byte on, for buffers of one and
\* two byte sequences: the code points, ending in -1 where a strict decoding
\* meets a malformed sequence.
RECURSIVE Utf8From(_, _, _)
Utf8From(buf, i, replace) ==
  IF i > Len(buf) THEN <<>>
  ELSE IF buf[i] < 128 THEN <<buf[i]>> \o Utf8From(buf, i + 1, replace)
  ELSE IF IsLead2(buf[i]) /\ i < Len(buf) /\ IsContinuation(buf[i + 1])
       THEN <<(buf[i] - 192) * 64 + (buf[i + 1] - 128)>> \o Utf8From(buf, i + 2, replace)
  ELSE IF replace THEN <<Replacement>> \o Utf8From(buf, i + 1, replace)
  ELSE <<-1>>

Malformed(cps) == \E i \in 1..Len(cps) : cps[i] = -1

\* The outcome of a call: a str returned, or an exception of class exc raised
\* with a message of some kind about arg.
NoMessage == [kind |-> "", arg |-> <<>>]
Raise(cls, kind, arg) ==
  [ok |-> FALSE, exc |-> cls, msg |-> [kind |-> kind, arg |-> arg], str |-> <<>>]
Return(str) == [ok |-> TRUE, exc |-> "", msg |-> NoMessage, str |-> str]

Utf8Decode(buf, replace) ==
  LET cps == Utf8From(buf, 1, replace)
  IN IF Malformed(cps) THEN Raise("UnicodeDecodeError", "invalid start byte", <<"utf-8">>) ELSE Return(cps)

\* The labels a detector may report, and those the interpreter has a codec
\* for ("EUC-TW" is a label chardet reports and the interpreter lacks).
Labels == {"utf-8", "latin-1", "ascii", "EUC-TW"}
Codecs == {"utf-8", "latin-1", "ascii"}

\* What a detector does when asked: it is not installed, it raises, it has
\* no result, it reports an empty label, or it reports a label.
DetectorBehaviours == {"absent", "raises", "none", "empty"} \cup Labels

\* data.decode(encoding, errors='replace')
Decode(buf, encoding) ==
  IF encoding \notin Codecs THEN Raise("LookupError", "unknown encoding", <<encoding>>)
  ELSE IF encoding = "utf-8" THEN Utf8Decode(buf, TRUE)
  ELSE IF encoding = "latin-1" THEN Return(buf)
  ELSE Return([i \in 1..Len(buf) |-> IF buf[i] < 128 THEN buf[i] ELSE Replacement])

\* The first try block: encoding stays None ("") unless charset_normalizer is
\* there, does not raise, and its best match carries a non-empty encoding.
DetectCharsetNormalizer(a) == IF a \in Labels THEN a ELSE ""

\* The second try block, entered when encoding is still unset: chardet's
\* result.get('encoding'), None ("") when it is absent, raises or has none.
DetectChardet(b) == IF b \in Labels THEN b ELSE ""

\* The function from the bytes on: strict UTF-8, then the detectors, then
\* UTF-8 with replacement.
ReadTextWithFallback(buf, a, b) ==
  LET strict == Utf8Decode(buf, FALSE)
      e1 == DetectCharsetNormalizer(a)
      e2 == IF e1 = "" THEN DetectChardet(b) ELSE e1
      encoding == IF e2 = "" THEN "utf-8" ELSE e2
  IN IF strict.ok THEN strict ELSE Decode(buf, encoding)

NoOutcome == [ok |-> FALSE, exc |-> "", msg |-> NoMessage, str |-> <<>>]

DecodeInit ==
  /\ data \in SeqsUpTo(ByteVals, MaxBytes)
  /\ detA \in DetectorBehaviours
  /\ detB \in DetectorBehaviours
  /\ decoded = NoOutcome
  /\ dpc = "call"

DecodeIdle ==
  /\ data = <<>> /\ detA = "absent" /\ detB = "absent"
  /\ decoded = NoOutcome /\ dpc = "idle"

ChunkIdle ==
  /\ text = <<>> /\ chunk_size = 1 /\ overlap = 0 /\ start = 0
  /\ chunks = <<>> /\ windows = <<>> /\ pc = "idle"

\* ------------------------------------------------------------------ FileParser
MaxPaths == 2

\* The paths the calls are made with, spelled character by character.
PathPool ==
  { <<"d", "/", "a", ".", "t", "x", "t">>,
    <<"a", ".", "T", "X", "T">>,
    <<"a", ".", "m", "d">>,
    <<"a", ".", "P", "d", "f">>,
    <<"a", ".", "d", "o", "c", "x">>,
    <<"a", ".", "D", "O", "C", "X">>,
    <<".", "t", "x", "t">> }

\* Path(file_path).name: what follows the last "/".
PathName(p) == SubSeq(p, RFind(p, <<"/">>) + 2, Len(p))

\* Path.suffix: the final component from its last dot on, when that dot is
\* neither its first nor its last character.
PathSuffix(p) ==
  LET name == PathName(p)
      i == RFind(name, <<".">>)
  IN IF 0 < i /\ i < Len(name) - 1 THEN SubSeq(name, i + 1, Len(name)) ELSE <<>>

LowerChar(c) ==
  CASE c = "T" -> "t" [] c = "X" -> "x" [] c = "P" -> "p" [] c = "D" -> "d"
    [] c = "O" -> "o" [] c = "C" -> "c" [] c = "M" -> "m" [] c = "F" -> "f"
    [] OTHER -> c

\* str.lower()
Lower(s) == [i \in 1..Len(s) |-> LowerChar(s[i])]

SUPPORTED_EXTENSIONS ==
  { <<".", "p", "d", "f">>, <<".", "m", "d">>,
    <<".", "m", "a", "r", "k", "d", "o", "w", "n">>, <<".", "t", "x", "t">> }

\* What the world outside does during one extract_text call: what read_bytes
\* does (it raises OSError, or returns the bytes), what the two detectors do,
\* and what PyMuPDF does ("absent": not installed, "broken": fitz.open raises,
\* "ok": the texts of the pages, as code points).
ReadResults ==
  { [fails |-> TRUE, bytes |-> <<>>],
    [fails |-> FALSE, bytes |-> <<65>>],
    [fails |-> FALSE, bytes |-> <<255>>] }

PdfEngines ==
  { [state |-> "absent", pages |-> <<>>],
    [state |-> "broken", pages |-> <<>>],
    [state |-> "ok", pages |-> <<>>],
    [state |-> "ok", pages |-> << <<65>>, <<32, 10>>, <<66, 32>> >>] }

Environments ==
  [ read : ReadResults,
    detA : {"absent", "latin-1"},
    detB : {"none", "EUC-TW"},
    pdf  : PdfEngines ]

IsSpaceCodePoint(c) == c \in {32, 10}

\* text.strip(), on code points.
StripCodePoints(s) == Trim(s, {i \in 1..Len(s) : ~IsSpaceCodePoint(s[i])})

\* "\n\n".join(text_parts), on code points.
RECURSIVE JoinPages(_)
JoinPages(parts) ==
  IF parts = <<>> THEN <<>>
  ELSE IF Len(parts) = 1 THEN parts[1]
  ELSE parts[1] \o <<10, 10>> \o JoinPages(Tail(parts))

\* An extract_text outcome: a decoder outcome, with the format dispatched to
\* and whether the file was opened.
Outcome(r, format, opened) ==
  [ok |-> r.ok, exc |-> r.exc, msg |-> r.msg, str |-> r.str,
   format |-> format, opened |-> opened]

\* _extract_from_pdf
ExtractFromPdf(env) ==
  IF env.pdf.state = "absent" THEN Raise("ImportError", "pip install PyMuPDF", <<>>)
  ELSE IF env.pdf.state = "broken" THEN Raise("RuntimeError", "cannot open", <<>>)
  ELSE Return(JoinPages(SelectSeq(env.pdf.pages,
                                  LAMBDA page : StripCodePoints(page) # <<>>)))

\* _extract_from_md, _extract_from_txt: read_bytes, then the decoder.
ExtractFromText(env) ==
  IF env.read.fails THEN Raise("OSError", "read failed", <<>>)
  ELSE ReadTextWithFallback(env.read.bytes, env.detA, env.detB)

\* Faulty variant of ExtractText: the extension is checked before existence.
ExtractTextSuffixFirst(p, exists, env) ==
  LET suffix == Lower(PathSuffix(p))
  IN IF suffix \notin SUPPORTED_EXTENSIONS
     THEN Outcome(Raise("ValueError", "unsupported format", suffix), "", FALSE)
     ELSE IF ~exists
     THEN Outcome(Raise("FileNotFoundError", "no such file", p), "", FALSE)
     ELSE IF suffix = <<".", "p", "d", "f">>
     THEN Outcome(ExtractFromPdf(env), "pdf", env.pdf.state # "absent")
     ELSE IF suffix \in {<<".", "m", "d">>, <<".", "m", "a", "r", "k", "d", "o", "w", "n">>}
     THEN Outcome(ExtractFromText(env), "md", TRUE)
     ELSE Outcome(ExtractFromText(env), "txt", TRUE)

\* FileParser.extract_text
ExtractText(p, exists, env) ==
  LET suffix == Lower(PathSuffix(p))
  IN IF ~exists
     THEN Outcome(Raise("FileNotFoundError", "no such file", p), "", FALSE)
     ELSE IF suffix \notin SUPPORTED_EXTENSIONS
     THEN Outcome(Raise("ValueError", "unsupported format", suffix), "", FALSE)
     ELSE IF suffix = <<".", "p", "d", "f">>
     THEN Outcome(ExtractFromPdf(env), "pdf", env.pdf.state # "absent")
     ELSE IF suffix \in {<<".", "m", "d">>, <<".", "m", "a", "r", "k", "d", "o", "w", "n">>}
     THEN Outcome(ExtractFromText(env), "md", TRUE)
     ELSE Outcome(ExtractFromText(env), "txt", TRUE)

\* The classes the model raises; all of them derive from Exception.
ExceptionClasses ==
  {"FileNotFoundError", "ValueError", "ImportError", "LookupError", "OSError",
   "RuntimeError", "UnicodeDecodeError"}

\* Faulty variant of Caught: only the errors extract_text raises itself.
CaughtOwnErrors(cls) == cls \in {"FileNotFoundError", "ValueError"}

\* except Exception
Caught(cls) == cls \in ExceptionClasses

\* The section appended for the i-th path: the file's name and the text, or
\* the path as given and the error's message.
Section(i, p, r) ==
  IF r.ok
  THEN [index |-> i, label |-> PathName(p), failed |-> FALSE, msg |-> NoMessage, body |-> r.str]
  ELSE [index |-> i, label |-> p, failed |-> TRUE, msg |-> r.msg, body |-> <<>>]

\* "\n\n".join(all_texts): the sections with a break between neighbours.
NoSection == [index |-> 0, label |-> <<>>, failed |-> FALSE, msg |-> NoMessage, body |-> <<>>]
SectionPiece(sec) == [break |-> FALSE, section |-> sec]
BreakPiece == [break |-> TRUE, section |-> NoSection]

RECURSIVE JoinSections(_)
JoinSections(parts) ==
  IF parts = <<>> THEN <<>>
  ELSE IF Len(parts) = 1 THEN <<SectionPiece(parts[1])>>
  ELSE <<SectionPiece(parts[1]), BreakPiece>> \o JoinSections(Tail(parts))

ExtractInit ==
  /\ file_paths \in SeqsUpTo(PathPool, MaxPaths)
  /\ fs \in SUBSET {file_paths[i] : i \in 1..Len(file_paths)}
  /\ all_texts = <<>>
  /\ calls = <<>>
  /\ returned = <<>>
  /\ epc = "loop"

ExtractIdle ==
  /\ file_paths = <<>> /\ fs = {} /\ all_texts = <<>> /\ calls = <<>>
  /\ returned = <<>> /\ epc = "idle"

vars == <<chunkVars, decodeVars, extractVars>>

\* ----------------------------------------------------------- specifications
Init == ChunkInit /\ DecodeIdle /\ ExtractIdle
Next == ShortReturn \/ EnterLoop \/ LoopIter \/ LoopExit
Spec == Init /\ [][Next]_vars

\* One call of _read_text_with_fallback, after read_bytes.
DecodeCall ==
  /\ dpc = "call"
  /\ decoded' = ReadTextWithFallback(data, detA, detB)
  /\ dpc' = "done"
  /\ UNCHANGED <<data, detA, detB, chunkVars, extractVars>>

InitDecode == ChunkIdle /\ DecodeInit /\ ExtractIdle
NextDecode == DecodeCall
SpecDecode == InitDecode /\ [][NextDecode]_vars

\* One iteration of the for loop of extract_from_multiple.
ProcessPath ==
  /\ epc = "loop"
  /\ Len(calls) < Len(file_paths)
  /\ \E env \in Environments :
        LET i == Len(calls) + 1
            p == file_paths[i]
            r == ExtractText(p, p \in fs, env)
        IN /\ calls' = Append(calls, [path |-> p, existed |-> p \in fs, result |-> r])
           /\ IF r.ok \/ Caught(r.exc)
              THEN /\ all_texts' = Append(all_texts, Section(i, p, r))
                   /\ epc' = "loop"
              ELSE /\ all_texts' = all_texts
                   /\ epc' = "raised"
  /\ UNCHANGED <<file_paths, fs, returned, chunkVars, decodeVars>>

\* return "\n\n".join(all_texts)
ReturnJoined ==
  /\ epc = "loop"
  /\ Len(calls) = Len(file_paths)
  /\ returned' = JoinSections(all_texts)
  /\ epc' = "done"
  /\ UNCHANGED <<file_paths, fs, all_texts, calls, chunkVars, decodeVars>>

InitExtract == ChunkIdle /\ DecodeIdle /\ ExtractInit
NextExtract == ProcessPath \/ ReturnJoined
SpecExtract == InitExtract /\ [][NextExtract]_vars

\* ------------------------------------------------------------------ helpers
\* The cursor after the i-th iteration.
StartAfter(i) == IF i < Len(windows) THEN windows[i + 1].start ELSE start

\* The characters of the i-th window: text[start:end].
WindowSlice(i) == PySlice(text, windows[i].start, windows[i].end)
WindowPositions(i) == PySlicePositions(text, windows[i].start, windows[i].end)

\* The text holds no separator anywhere.
NoSeparator(t) == \A k \in 1..Len(Seps) : RFind(t, Seps[k]) = -1

\* The iteration just made.  The history only grows, so every window is the
\* latest one in the state that follows its iteration.
Latest == IF windows = <<>> THEN {} ELSE {Len(windows)}

Returned == pc = "done"
LongPath == Len(text) > chunk_size

\* The iterations that emitted a chunk, in order.
EmittedWindows == SelectSeq(windows, LAMBDA w : w.emitted)

\* ------------------------------------------------------------------- claims

\* C2: a text no longer than chunk_size is returned as the one-element list
\* of the text with its surrounding whitespace removed, or as the empty list
\* when it is blank.
C2_ShortTextIsTrimmed ==
  (Returned /\ ~LongPath) =>
     chunks = (IF Strip(text) # <<>> THEN <<Strip(text)>> ELSE <<>>)

\* C3: with 0 <= overlap < chunk_size, every loop iteration moves the cursor
\* strictly forward and never below 0.
C3_CursorStrictlyIncreases ==
  \A i \in 1..Len(windows) :
     /\ StartAfter(i) > windows[i].start
     /\ StartAfter(i) >= 0

\* C4 as claimed: on a separator-free text longer than chunk_size, the k-th
\* window starts at k*(chunk_size-overlap) and holds chunk_size characters,
\* every one of them.
C4_EveryWindowFullLength ==
  (LongPath /\ NoSeparator(text)) =>
     \A k \in 1..Len(windows) :
        /\ windows[k].start = (k - 1) * (chunk_size - overlap)
        /\ Len(WindowSlice(k)) = chunk_size

\* C4 amended: on a separator-free text longer than chunk_size, the k-th
\* window starts at k*(chunk_size-overlap) and is cut at start + chunk_size;
\* it holds chunk_size characters, except that the last one holds what is
\* left of the text; consecutive windows share exactly overlap characters and
\* the windows of a returned call cover the text.
C4_HardCutWindows ==
  (LongPath /\ NoSeparator(text)) =>
     /\ \A k \in Latest :
          /\ windows[k].start = (k - 1) * (chunk_size - overlap)
          /\ windows[k].end = windows[k].start + chunk_size
          /\ windows[k].sep = 0
          /\ Len(WindowSlice(k)) = Min(chunk_size, Len(text) - windows[k].start)
          /\ Len(WindowSlice(k)) >= 1
          /\ k > 1 =>
               /\ Len(WindowSlice(k - 1)) = chunk_size
               /\ Cardinality(WindowPositions(k - 1) \cap WindowPositions(k)) = overlap
     /\ Returned =>
          UNION {WindowPositions(k) : k \in 1..Len(windows)} = 0..(Len(text) - 1)

\* C4 witness: the documented example has returned: 100 characters, windows
\* of 10 advancing by 8.
C4_Witness ==
  /\ Returned /\ text = ExampleText /\ chunk_size = 10 /\ overlap = 2
  /\ Len(windows) = 13
  /\ Len(chunks[13]) = 4

\* C5: the windows of a returned call on a text longer than chunk_size cover
\* the text without gaps: the first starts at 0, each next one starts at or
\* before the end of the previous one, the last one ends at the text's end and
\* every index lies in some window.
C5_WindowsCoverText ==
  (Returned /\ LongPath) =>
     /\ windows[1].start = 0
     /\ \A k \in 1..(Len(windows) - 1) : windows[k + 1].start <= windows[k].end
     /\ windows[Len(windows)].end >= Len(text)
     /\ UNION {WindowPositions(k) : k \in 1..Len(windows)} = 0..(Len(text) - 1)

\* A boundary b splits the separator that occupies [p, p + n) when it falls
\* strictly inside it.
SplitsSeparator(b, p, n) == p < b /\ b < p + n

\* Where the separator chosen in the i-th window begins in the text.
SepPosition(i) == windows[i].start + windows[i].last

\* C6 as claimed: when a separator is accepted in a window, neither that
\* window's end nor the next window's start falls strictly inside it.
C6_NoBoundaryInsideSeparator ==
  \A i \in Latest :
     windows[i].sep # 0 =>
        /\ ~SplitsSeparator(windows[i].end, SepPosition(i), Len(Seps[windows[i].sep]))
        /\ ~SplitsSeparator(StartAfter(i), SepPosition(i), Len(Seps[windows[i].sep]))

\* C6 amended: when a separator is accepted in a window, the window ends
\* exactly after its last character, so the end never falls inside it; the
\* next window starts overlap characters earlier, which is strictly inside
\* the separator exactly when the separator has two characters and overlap
\* is 1.
C6_EndAfterSeparator ==
  \A i \in Latest :
     windows[i].sep # 0 =>
        LET n == Len(Seps[windows[i].sep])
        IN /\ SubSeq(text, SepPosition(i) + 1, SepPosition(i) + n) = Seps[windows[i].sep]
           /\ windows[i].end = SepPosition(i) + n
           /\ windows[i].end < Len(text)
           /\ StartAfter(i) = windows[i].end - overlap
           /\ SplitsSeparator(StartAfter(i), SepPosition(i), n) <=> (n = 2 /\ overlap = 1)

\* C6 witness: a two-character separator was accepted and the next window
\* starts on its second character.
C6_Witness ==
  \E i \in Latest :
     /\ windows[i].sep # 0
     /\ Len(Seps[windows[i].sep]) = 2
     /\ StartAfter(i) = SepPosition(i) + 1

\* The separators that occur in a tentative slice w, and those whose
\* rightmost occurrence lies above 30% of chunk_size.
Tentative(i) == PySlice(text, windows[i].start, windows[i].start + chunk_size)
Occurring(w) == {k \in 1..Len(Seps) : RFind(w, Seps[k]) # -1}
Accepted(w) == {k \in 1..Len(Seps) : 10 * RFind(w, Seps[k]) > 3 * chunk_size}
First(S) == CHOOSE k \in S : \A j \in S : k <= j
EndAfter(i, w, k) == windows[i].start + RFind(w, Seps[k]) + Len(Seps[k])
BeforeTextEnd(i) == windows[i].start + chunk_size < Len(text)

C7_DecoderIsTotal ==
  dpc = "done" =>
     /\ decoded.ok
     /\ (~Utf8Decode(data, FALSE).ok /\ detA \notin Labels /\ detB \notin Labels) =>
           /\ decoded.str = Utf8Decode(data, TRUE).str
           /\ \E i \in 1..Len(decoded.str) : decoded.str[i] = Replacement

\* Letters that differ only in case.
CasePairs ==
  { <<"T", "t">>, <<"X", "x">>, <<"P", "p">>, <<"D", "d">>,
    <<"O", "o">>, <<"C", "c">>, <<"M", "m">>, <<"F", "f">> }
SameLetter(c, d) == c = d \/ <<c, d>> \in CasePairs \/ <<d, c>> \in CasePairs
SameIgnoringCase(s, t) ==
  Len(s) = Len(t) /\ \A i \in 1..Len(s) : SameLetter(s[i], t[i])

\* The path's extension is, up to letter case, one of the supported ones.
HasSupportedExtension(p) ==
  \E e \in SUPPORTED_EXTENSIONS : SameIgnoringCase(PathSuffix(p), e)

\* C8: extract_text on a path that does not exist raises FileNotFoundError,
\* whatever the extension; on an existing path whose extension is not a
\* supported one it raises ValueError without opening the file; paths whose
\* extensions differ only in letter case are classified alike.
C8_ErrorDeterminedByPath ==
  /\ \A i \in 1..Len(calls) :
        LET c == calls[i]
        IN /\ ~c.existed =>
                ~c.result.ok /\ c.result.exc = "FileNotFoundError" /\ ~c.result.opened
           /\ (c.existed /\ ~HasSupportedExtension(c.path)) =>
                ~c.result.ok /\ c.result.exc = "ValueError" /\ ~c.result.opened
           /\ (c.existed /\ HasSupportedExtension(c.path)) =>
                /\ c.result.format \in {"pdf", "md", "txt"}
                /\ c.result.exc \notin {"FileNotFoundError", "ValueError"}
  /\ \A i, j \in 1..Len(calls) :
        ( /\ calls[i].existed /\ calls[j].existed
          /\ SameIgnoringCase(PathSuffix(calls[i].path), PathSuffix(calls[j].path)) ) =>
           calls[i].result.format = calls[j].result.format

\* C8 witness: a missing path with a supported extension was refused as not
\* found, and an existing one with an upper-case unsupported extension as
\* unsupported.
C8_Witness ==
  /\ Len(calls) = 2
  /\ ~calls[1].existed /\ HasSupportedExtension(calls[1].path)
  /\ calls[1].result.exc = "FileNotFoundError"
  /\ calls[2].existed /\ calls[2].path = <<"a", ".", "D", "O", "C", "X">>
  /\ calls[2].result.exc = "ValueError"

\* C1: extract_from_multiple never raises; every path processed so far has
\* its section, the i-th carrying index i and naming the i-th path (its name
\* on success, the path as given on failure); the value returned holds one
\* section per input path, in input order.
C1_OneSectionPerPath ==
  /\ epc # "raised"
  /\ Len(all_texts) = Len(calls)
  /\ \A i \in 1..Len(all_texts) :
        /\ calls[i].path = file_paths[i]
        /\ all_texts[i].index = i
        /\ all_texts[i].failed <=> ~calls[i].result.ok
        /\ all_texts[i].label =
             IF calls[i].result.ok THEN PathName(file_paths[i]) ELSE file_paths[i]
  /\ epc = "done" =>
        /\ Len(all_texts) = Len(file_paths)
        /\ Len(SelectSeq(returned, LAMBDA piece : ~piece.break)) = Len(file_paths)
        /\ \A i \in 1..Len(file_paths) : returned[2 * i - 1] = SectionPiece(all_texts[i])

\* C1 witness: a call returned two sections, the first for a path whose
\* extraction failed inside the PDF engine or the decoder, the second for a
\* path that was extracted.
C1_Witness ==
  /\ epc = "done"
  /\ Len(file_paths) = 2
  /\ all_texts[1].failed
  /\ calls[1].result.exc \in {"ImportError", "RuntimeError", "LookupError", "OSError"}
  /\ ~all_texts[2].failed
  /\ all_texts[2].index = 2
====
